---- MODULE Spec2Model ----
(***************************************************************************)
(* necromancer.nvim: dependency resolution (src/core/dependencies.ts),     *)
(* configuration validation (src/core/config.ts, src/core/validator.ts),   *)
(* per-plugin reconciliation (src/core/installer.ts) and the install,      *)
(* verify and clean commands (src/cli/commands/install.ts, verify.ts,      *)
(* clean.ts).                                                              *)
(*                                                                         *)
(* The specifications share the variables:                                 *)
(*   SpecResolve    applies resolveDependencies to every bounded plugin    *)
(*                  list, repeated names included                          *)
(*   SpecOrder      applies resolveDependencies to longer lists of         *)
(*                  uniquely named plugins                                 *)
(*   Spec           runs the install command against every bounded         *)
(*                  configuration, disk state and lock file                *)
(*   SpecDeps       runs the install command on a fresh machine against    *)
(*                  configurations whose plugins declare dependencies      *)
(*   SpecInvalid    runs the install command against configurations that   *)
(*                  validateConfig may reject                              *)
(*   SpecVerify     runs the verify command against every bounded lock     *)
(*                  file and disk state                                    *)
(*   SpecInstallDir runs install and verify under each kind of installDir  *)
(*   SpecClean      runs the clean command against every bounded lock file *)
(*                  and disk state                                         *)
(*   SpecLedger     runs install, verify and clean in any order, with the  *)
(*                  configuration edited in between                        *)
(*   SpecMetachar   runs the install command against configurations with   *)
(*                  shell metacharacters in their fields                   *)
(*   SpecName       applies isValidPluginName to every bounded name        *)
(*   SpecFirst      runs the install command once from every initial state *)
(*                  of Spec                                                *)
(***************************************************************************)
EXTENDS Integers, Sequences, FiniteSets, TLC

VARIABLES
    config,     \* the parsed configuration file: [plugins, installDir]
    resolved,   \* outcome of resolveDependencies(config.plugins), or NoResult
    disk,       \* filesystem: path -> state of the directory at that path
    lockFile,   \* the lock file as stored on disk: sequence of InstalledPlugin
    clock,      \* what new Date() returns next
    run         \* record of the last command that ran, or NoRun

vars == <<config, resolved, disk, lockFile, clock, run>>

(***************************************************************************)
(* Bounds                                                                  *)
(***************************************************************************)
MaxPlugins == 3     \* longest plugin list handed to resolveDependencies
MaxEdges   == 3     \* most dependencies entries in one plugin list
MaxRuns    == 2     \* commands run in succession
MaxOrdered == 4     \* longest plugin list whose resolved order is compared with its declaration order
MaxNameLen == 2     \* most characters typed into a plugin name

\* Plugin names the bounded inputs are drawn from.
NamePool == <<"a", "b", "c", "d", "e">>

(***************************************************************************)
(* Sequence helpers (Array.prototype methods used by the code)             *)
(***************************************************************************)
Range(s) == {s[i] : i \in DOMAIN s}

\* Array.prototype.filter
RECURSIVE SeqFilter(_, _)
SeqFilter(s, keep) ==
    IF s = <<>> THEN <<>>
    ELSE (IF Head(s) \in keep THEN <<Head(s)>> ELSE <<>>) \o SeqFilter(Tail(s), keep)

\* Array.prototype.indexOf, 0 when absent
IndexOf(s, x) ==
    IF \E i \in DOMAIN s : s[i] = x
    THEN CHOOSE i \in DOMAIN s : s[i] = x /\ \A j \in 1..(i-1) : s[j] # x
    ELSE 0

\* All sequences over S of length at most n
SeqsUpTo(S, n) == UNION {[1..k -> S] : k \in 0..n}

(***************************************************************************)
(* src/core/dependencies.ts                                                *)
(***************************************************************************)
NoResult == [ok |-> FALSE, kind |-> "none", order |-> <<>>,
             plugin |-> "", dep |-> "", remaining |-> <<>>]

\* `new ValidationError(...)` of line 23: the dependent and the missing name
MissingDependencyError(p, d) ==
    [ok |-> FALSE, kind |-> "missing", order |-> <<>>,
     plugin |-> p, dep |-> d, remaining |-> <<>>]

\* `new ValidationError(...)` of line 84: the names left unresolved
CircularDependencyError(rem) ==
    [ok |-> FALSE, kind |-> "circular", order |-> <<>>,
     plugin |-> "", dep |-> "", remaining |-> rem]

Resolved(order) ==
    [ok |-> TRUE, kind |-> "ok", order |-> order,
     plugin |-> "", dep |-> "", remaining |-> <<>>]

PluginNames(plugins) == {plugins[i].name : i \in DOMAIN plugins}

\* Keys of a Map filled by set(plugin.name, ...) in array order: a Map
\* iterates in first-insertion order and a repeated set keeps the position.
RECURSIVE MapKeys(_, _)
MapKeys(plugins, seen) ==
    IF plugins = <<>> THEN <<>>
    ELSE IF Head(plugins).name \in seen THEN MapKeys(Tail(plugins), seen)
    ELSE <<Head(plugins).name>> \o MapKeys(Tail(plugins), seen \cup {Head(plugins).name})

\* pluginMap (lines 13-16): a later plugin of the same name replaces the
\* earlier one as the value of the key.
pluginMap(plugins) ==
    [n \in PluginNames(plugins) |->
        LET last == CHOOSE i \in DOMAIN plugins :
                        /\ plugins[i].name = n
                        /\ \A j \in DOMAIN plugins : plugins[j].name = n => j <= i
        IN plugins[last]]

\* Mutant of FirstMissingDep: only the first dependency of a plugin is looked up
FirstMissingDep_HeadOnly(name, deps, names) ==
    IF deps # <<>> /\ Head(deps) \notin names
    THEN MissingDependencyError(name, Head(deps))
    ELSE NoResult

\* Lines 19-27: the first (plugin, dependency) pair, in array order, whose
\* dependency is not a key of pluginMap; NoResult when there is none.
RECURSIVE FirstMissingDep(_, _, _)
FirstMissingDep(name, deps, names) ==
    IF deps = <<>> THEN NoResult
    ELSE IF Head(deps) \notin names THEN MissingDependencyError(name, Head(deps))
    ELSE FirstMissingDep(name, Tail(deps), names)

RECURSIVE FirstMissing(_, _)
FirstMissing(plugins, names) ==
    IF plugins = <<>> THEN NoResult
    ELSE LET m == FirstMissingDep(Head(plugins).name, Head(plugins).dependencies, names)
         IN IF m.kind = "missing" THEN m ELSE FirstMissing(Tail(plugins), names)

\* Lines 40-48: one edge depName -> plugin.name per dependencies entry, and
\* one increment of the dependent's in-degree per entry.
RECURSIVE AddEdges(_, _, _)
AddEdges(name, deps, g) ==
    IF deps = <<>> THEN g
    ELSE AddEdges(name, Tail(deps),
            [inDegree      |-> [g.inDegree EXCEPT ![name] = @ + 1],
             adjacencyList |-> [g.adjacencyList EXCEPT ![Head(deps)] = Append(@, name)]])

RECURSIVE BuildGraphFrom(_, _)
BuildGraphFrom(plugins, g) ==
    IF plugins = <<>> THEN g
    ELSE BuildGraphFrom(Tail(plugins),
                        AddEdges(Head(plugins).name, Head(plugins).dependencies, g))

\* Mutant of BuildGraph: the in-degrees are never incremented
BuildGraph_NoInDegree(plugins) ==
    [inDegree      |-> [n \in PluginNames(plugins) |-> 0],
     adjacencyList |-> BuildGraphFrom(plugins,
                          [inDegree      |-> [n \in PluginNames(plugins) |-> 0],
                           adjacencyList |-> [n \in PluginNames(plugins) |-> <<>>]]).adjacencyList]

\* Lines 30-48
BuildGraph(plugins) ==
    BuildGraphFrom(plugins,
        [inDegree      |-> [n \in PluginNames(plugins) |-> 0],
         adjacencyList |-> [n \in PluginNames(plugins) |-> <<>>]])

\* Mutant of InitialQueue: the queue is seeded in reverse Map order
RECURSIVE InitialQueue_Reversed(_, _)
InitialQueue_Reversed(keys, inDegree) ==
    IF keys = <<>> THEN <<>>
    ELSE InitialQueue_Reversed(Tail(keys), inDegree)
         \o (IF inDegree[Head(keys)] = 0 THEN <<Head(keys)>> ELSE <<>>)

\* Lines 55-59: the keys of inDegree, in Map order, whose degree is 0
RECURSIVE InitialQueue(_, _)
InitialQueue(keys, inDegree) ==
    IF keys = <<>> THEN <<>>
    ELSE (IF inDegree[Head(keys)] = 0 THEN <<Head(keys)>> ELSE <<>>)
         \o InitialQueue(Tail(keys), inDegree)

\* Mutant of VisitNeighbors: a neighbour that becomes ready jumps the queue
RECURSIVE VisitNeighbors_Unshift(_, _, _)
VisitNeighbors_Unshift(neighbors, queue, inDegree) ==
    IF neighbors = <<>> THEN [queue |-> queue, inDegree |-> inDegree]
    ELSE LET n         == Head(neighbors)
             newDegree == inDegree[n] - 1
         IN VisitNeighbors_Unshift(Tail(neighbors),
                           IF newDegree = 0 THEN <<n>> \o queue ELSE queue,
                           [inDegree EXCEPT ![n] = newDegree])

\* Lines 69-76: decrement every neighbour, enqueue the ones that reach 0
RECURSIVE VisitNeighbors(_, _, _)
VisitNeighbors(neighbors, queue, inDegree) ==
    IF neighbors = <<>> THEN [queue |-> queue, inDegree |-> inDegree]
    ELSE LET n         == Head(neighbors)
             newDegree == inDegree[n] - 1
         IN VisitNeighbors(Tail(neighbors),
                           IF newDegree = 0 THEN Append(queue, n) ELSE queue,
                           [inDegree EXCEPT ![n] = newDegree])

\* Lines 62-77: the names in the order they are shifted off the queue
RECURSIVE ProcessQueue(_, _, _, _)
ProcessQueue(queue, result, inDegree, adjacencyList) ==
    IF queue = <<>> THEN result
    ELSE LET current == Head(queue)
             v       == VisitNeighbors(adjacencyList[current], Tail(queue), inDegree)
         IN ProcessQueue(v.queue, Append(result, current), v.inDegree, adjacencyList)

\* Mutant of Unresolved: only the first unresolved plugin is named
Unresolved_FirstOnly(plugins, sorted) ==
    LET left == SeqFilter(plugins, {p \in Range(plugins) : p.name \notin Range(sorted)})
    IN IF left = <<>> THEN <<>> ELSE <<left[1].name>>

\* Lines 81-83: the names of the plugins that are not in the result
Unresolved(plugins, sorted) ==
    LET left == SeqFilter(plugins, {p \in Range(plugins) : p.name \notin Range(sorted)})
    IN [i \in 1..Len(left) |-> left[i].name]

\* Lines 11-88
resolveDependencies(plugins) ==
    LET names   == PluginNames(plugins)
        missing == FirstMissing(plugins, names)
    IN IF missing.kind = "missing" THEN missing
       ELSE LET g      == BuildGraph(plugins)
                keys   == MapKeys(plugins, {})
                sorted == ProcessQueue(InitialQueue(keys, g.inDegree), <<>>,
                                       g.inDegree, g.adjacencyList)
                pm     == pluginMap(plugins)
                result == [i \in 1..Len(sorted) |-> pm[sorted[i]]]
            IN IF Len(result) # Len(plugins)
               THEN CircularDependencyError(Unresolved(plugins, sorted))
               ELSE Resolved(result)

(***************************************************************************)
(* Values                                                                  *)
(*                                                                         *)
(* A revision string is [id, upper, len]: the commit it names, whether it  *)
(* is spelled with upper-case hex digits, and its length.  git prints      *)
(* object names in lower case and resolves them in either case.            *)
(***************************************************************************)
Target   == "r1"     \* the commit the configuration pins
BranchTip == "r2"    \* the commit a fresh clone has checked out
NewTarget == "r3"    \* the commit a configuration edited after the install pins

CommitString(id, upper) == [id |-> id, upper |-> upper, len |-> 40]

\* A URL is [scheme, host, owner, repo]: scheme://host/owner/repo
Url(scheme, host, owner, repo) ==
    [scheme |-> scheme, host |-> host, owner |-> owner, repo |-> repo]

GitHubUrl(owner, repo) == Url("https", "github.com", owner, repo)

PluginDefinition(name, commit, deps) ==
    [name |-> name, repo |-> GitHubUrl("owner", name),
     commit |-> commit, dependencies |-> deps]

\* Paths are sequences of segments.  An absent installDir is the empty path.
NoInstallDir == <<>>
HomeDir      == "/home/user"

Absent  == [kind |-> "absent",  head |-> "", len |-> 0]
NotRepo == [kind |-> "notrepo", head |-> "", len |-> 0]
Repo(head, len) == [kind |-> "repo", head |-> head, len |-> len]

(***************************************************************************)
(* src/core/validator.ts                                                   *)
(***************************************************************************)
\* The characters plugin names are typed from: a lower-case and an
\* upper-case letter, a digit, the three punctuation characters a name may
\* have, a space and a slash
NameAlphabet == {"a", "Z", "7", "-", ".", "_", " ", "/"}

\* Length of the run of "a" a long name starts with
LongPrefix == 99

\* 'c'.repeat(n)
RECURSIVE Repeat(_, _)
Repeat(c, n) == IF n = 0 THEN "" ELSE c \o Repeat(c, n - 1)

\* Array.prototype.join('')
RECURSIVE Join(_)
Join(cs) == IF cs = <<>> THEN "" ELSE Head(cs) \o Join(Tail(cs))

\* The characters of a string: of the strings the bounded inputs use as
\* names and URL segments, of a typed name (at most MaxNameLen characters
\* of NameAlphabet, possibly after LongPrefix times "a"), and of a string
\* of one character.
Chars(str) ==
    CASE str = ""      -> <<>>
      [] str = "-x"    -> <<"-", "x">>
      [] str = "a b"   -> <<"a", " ", "b">>
      [] str = "owner" -> <<"o", "w", "n", "e", "r">>
      [] str = "old"   -> <<"o", "l", "d">>
      [] str = "a;b"   -> <<"a", ";", "b">>
      [] str = "x|y"   -> <<"x", "|", "y">>
      [] str = "$(id)" -> <<"$", "(", "i", "d", ")">>
      [] OTHER         ->
            IF Len(str) = 1 THEN <<str>>
            ELSE IF Len(str) >= LongPrefix
            THEN [i \in 1..LongPrefix |-> "a"] \o
                 (CHOOSE cs \in [1..(Len(str) - LongPrefix) -> NameAlphabet] :
                      Repeat("a", LongPrefix) \o Join(cs) = str)
            ELSE IF Len(str) <= MaxNameLen
                    /\ \E cs \in [1..Len(str) -> NameAlphabet] : Join(cs) = str
            THEN CHOOSE cs \in [1..Len(str) -> NameAlphabet] : Join(cs) = str
            ELSE <<str>>

\* \w of a JavaScript regular expression: [A-Za-z0-9_]
IsWordChar(c) ==
    c \in {"a", "b", "c", "d", "e", "i", "l", "n", "o", "r", "w", "x", "y",
           "Z", "7", "_"}

\* Mutant of isValidGitHubUrl: any host is accepted
isValidGitHubUrl_AnyHost(url) ==
    /\ url.scheme = "https"
    /\ Len(Chars(url.owner)) >= 1
    /\ \A i \in DOMAIN Chars(url.owner) :
          IsWordChar(Chars(url.owner)[i]) \/ Chars(url.owner)[i] = "-"
    /\ Len(Chars(url.repo)) >= 1
    /\ \A i \in DOMAIN Chars(url.repo) :
          IsWordChar(Chars(url.repo)[i]) \/ Chars(url.repo)[i] \in {".", "-"}

\* GITHUB_URL_REGEX = /^https:\/\/github\.com\/[\w-]+\/[\w.-]+(?:\.git)?$/
\* (the optional .git suffix is already matched by [\w.-]+)
isValidGitHubUrl(url) ==
    /\ url.scheme = "https"
    /\ url.host = "github.com"
    /\ Len(Chars(url.owner)) >= 1
    /\ \A i \in DOMAIN Chars(url.owner) :
          IsWordChar(Chars(url.owner)[i]) \/ Chars(url.owner)[i] = "-"
    /\ Len(Chars(url.repo)) >= 1
    /\ \A i \in DOMAIN Chars(url.repo) :
          IsWordChar(Chars(url.repo)[i]) \/ Chars(url.repo)[i] \in {".", "-"}

\* COMMIT_HASH_REGEX = /^[a-f0-9]{40}$/i : 40 hex digits of either case
isValidCommitHash(hash) == hash.len = 40

\* Mutant of isValidPluginName: the first character may be any of [\w.-]
isValidPluginName_AnyFirst(name) ==
    LET cs == Chars(name)
    IN /\ Len(cs) >= 1
       /\ Len(cs) <= 100
       /\ \A i \in 1..Len(cs) : IsWordChar(cs[i]) \/ cs[i] \in {".", "-"}

\* PLUGIN_NAME_REGEX = /^[\w][\w.-]{0,99}$/
isValidPluginName(name) ==
    LET cs == Chars(name)
    IN /\ Len(cs) >= 1
       /\ Len(cs) <= 100
       /\ IsWordChar(cs[1])
       /\ \A i \in 2..Len(cs) : IsWordChar(cs[i]) \/ cs[i] \in {".", "-"}

\* SHELL_METACHAR_REGEX: the string has one of ; & | $ ( ) < >, a
\* backquote (the character "BQ") or a line feed ("LF")
HasShellMetachar(str) ==
    \E i \in DOMAIN Chars(str) :
        Chars(str)[i] \in {";", "&", "|", "BQ", "$", "(", ")", "<", ">", "LF"}

\* Lines 58-62: "ok" or the error class it throws
sanitizeShellInput(input) ==
    IF HasShellMetachar(input) THEN "ValidationError" ELSE "ok"

(***************************************************************************)
(* src/utils/paths.ts                                                      *)
(***************************************************************************)
getDefaultInstallDir == <<HomeDir, ".local/share/nvim/necromancer/plugins">>

\* Lines 17-26: a leading "~" segment becomes os.homedir()
expandTilde(filePath) ==
    IF filePath # <<>> /\ Head(filePath) = "~" THEN <<HomeDir>> \o Tail(filePath)
    ELSE filePath

\* Lines 81-85: pathModule.join(installDir, pluginName)
resolvePluginPath(pluginName, customInstallDir) ==
    Append(IF customInstallDir # NoInstallDir THEN expandTilde(customInstallDir)
           ELSE getDefaultInstallDir, pluginName)

(***************************************************************************)
(* core/git.ts and fs, acting on the modelled filesystem d.  An operation  *)
(* returns [ok, disk, ...]; ok = FALSE stands for the GitError (or fs      *)
(* error) it throws.  `fail` is the environment's choice that this call    *)
(* fails (network down, unknown commit, permission denied).                *)
(***************************************************************************)
existsSync(d, path) == path \in DOMAIN d /\ d[path].kind # "absent"

\* git rev-parse HEAD, trimmed: fails outside a repository
getCurrentCommit(d, path) ==
    IF path \in DOMAIN d /\ d[path].kind = "repo"
    THEN [ok |-> TRUE,
          value |-> [id |-> d[path].head, upper |-> FALSE, len |-> d[path].len]]
    ELSE [ok |-> FALSE, value |-> [id |-> "", upper |-> FALSE, len |-> 0]]

\* git clone: refuses an existing destination
gitClone(d, url, targetPath, fail) ==
    IF fail \/ targetPath \notin DOMAIN d \/ d[targetPath].kind # "absent"
    THEN [ok |-> FALSE, disk |-> d]
    ELSE [ok |-> TRUE, disk |-> [d EXCEPT ![targetPath] = Repo(BranchTip, 40)]]

\* git checkout <commit> with cwd repoPath
gitCheckout(d, repoPath, commit, fail) ==
    IF fail \/ repoPath \notin DOMAIN d \/ d[repoPath].kind # "repo"
    THEN [ok |-> FALSE, disk |-> d]
    ELSE [ok |-> TRUE, disk |-> [d EXCEPT ![repoPath].head = commit.id]]

\* Mutant of rmSync: the removal takes every directory with it
rmSync_Everything(d, path, fail) ==
    IF fail THEN [ok |-> FALSE, disk |-> d]
    ELSE [ok |-> TRUE, disk |-> [p \in DOMAIN d |-> Absent]]

\* rmSync(path, {recursive: true, force: true})
rmSync(d, path, fail) ==
    IF fail THEN [ok |-> FALSE, disk |-> d]
    ELSE [ok |-> TRUE,
          disk |-> IF path \in DOMAIN d THEN [d EXCEPT ![path] = Absent] ELSE d]

\* One entry of the log of operations a command invoked
Op(op, name, ok) == [op |-> op, name |-> name, ok |-> ok]

FailPoints == {"none", "rm", "clone", "checkout"}

(***************************************************************************)
(* src/core/installer.ts                                                   *)
(***************************************************************************)
\* Mutant of verifyInstallation: every existing directory counts as corrupt
verifyInstallation_NeverValid(d, path) == FALSE

\* Lines 12-28
verifyInstallation(d, path) ==
    IF ~existsSync(d, path) THEN FALSE
    ELSE LET currentCommit == getCurrentCommit(d, path)
         IN IF ~currentCommit.ok THEN FALSE
            ELSE currentCommit.value.len = 40

\* Mutant of CloneAndCheckout: the clone is left at the branch tip
CloneAndCheckout_NoCheckout(def, targetPath, d, failAt) ==
    LET c == gitClone(d, def.repo, targetPath, failAt = "clone")
    IN [ok |-> c.ok, disk |-> c.disk,
        error |-> IF c.ok THEN "none" ELSE "GitError",
        ops |-> <<Op("clone", def.name, c.ok)>>]

\* Lines 157-160 (and 47-50): gitClone, then gitCheckout
CloneAndCheckout(def, targetPath, d, failAt) ==
    LET c == gitClone(d, def.repo, targetPath, failAt = "clone")
    IN IF ~c.ok
       THEN [ok |-> FALSE, disk |-> c.disk, error |-> "GitError",
             ops |-> <<Op("clone", def.name, FALSE)>>]
       ELSE LET k == gitCheckout(c.disk, targetPath, def.commit, failAt = "checkout")
            IN [ok |-> k.ok, disk |-> k.disk,
                error |-> IF k.ok THEN "none" ELSE "GitError",
                ops |-> <<Op("clone", def.name, TRUE), Op("checkout", def.name, k.ok)>>]

\* Mutant of repairPlugin: the clone is attempted over the corrupt directory
repairPlugin_NoRemove(def, targetPath, d, failAt) ==
    CloneAndCheckout(def, targetPath, d, failAt)

\* Mutant of repairPlugin: the corrupt directory is removed and nothing is
\* cloned in its place
repairPlugin_RemoveOnly(def, targetPath, d, failAt) ==
    LET r == rmSync(d, targetPath, failAt = "rm")
    IN [ok |-> r.ok, disk |-> r.disk,
        error |-> IF r.ok THEN "none" ELSE "GitError",
        ops |-> <<Op("rm", def.name, r.ok)>>]

\* Lines 36-51
repairPlugin(def, targetPath, d, failAt) ==
    IF existsSync(d, targetPath)
    THEN LET r == rmSync(d, targetPath, failAt = "rm")
         IN IF ~r.ok
            THEN [ok |-> FALSE, disk |-> r.disk, error |-> "GitError",
                  ops |-> <<Op("rm", def.name, FALSE)>>]
            ELSE LET cc == CloneAndCheckout(def, targetPath, r.disk, failAt)
                 IN [cc EXCEPT !.ops = <<Op("rm", def.name, TRUE)>> \o @]
    ELSE CloneAndCheckout(def, targetPath, d, failAt)

InstallationStatus(def, status, error, d, ops) ==
    [plugin |-> def, status |-> status, error |-> error, disk |-> d, ops |-> ops]

\* Lines 109-175
installPlugin(def, installDir, d, failAt) ==
    LET targetPath == resolvePluginPath(def.name, installDir)
    IN IF existsSync(d, targetPath)
       THEN IF ~verifyInstallation(d, targetPath)
            THEN LET r == repairPlugin(def, targetPath, d, failAt)
                 IN InstallationStatus(def, IF r.ok THEN "success" ELSE "failed",
                                       r.error, r.disk, r.ops)
            ELSE LET currentCommit == getCurrentCommit(d, targetPath).value
                 IN IF currentCommit = def.commit
                    THEN InstallationStatus(def, "skipped", "none", d, <<>>)
                    ELSE LET k == gitCheckout(d, targetPath, def.commit,
                                              failAt = "checkout")
                         IN InstallationStatus(def,
                                IF k.ok THEN "updated" ELSE "failed",
                                IF k.ok THEN "none" ELSE "GitError", k.disk,
                                <<Op("checkout", def.name, k.ok)>>)
       ELSE LET cc == CloneAndCheckout(def, targetPath, d, failAt)
            IN InstallationStatus(def, IF cc.ok THEN "success" ELSE "failed",
                                  cc.error, cc.disk, cc.ops)

(***************************************************************************)
(* core/config.ts                                                          *)
(***************************************************************************)
\* validateConfig, lines 40-93: "ok" or the error class it throws.
\* Lines 54-92, per plugin in array order: a missing name (the empty
\* string is falsy), an ill-formed name, a name seen before, an ill-formed
\* URL, an ill-formed commit.
RECURSIVE ValidatePlugins(_, _)
ValidatePlugins(plugins, pluginNames) ==
    IF plugins = <<>> THEN "ok"
    ELSE LET plugin == Head(plugins)
         IN IF plugin.name = "" THEN "ValidationError"
            ELSE IF ~isValidPluginName(plugin.name) THEN "ValidationError"
            ELSE IF plugin.name \in pluginNames THEN "ValidationError"
            ELSE IF ~isValidGitHubUrl(plugin.repo) THEN "ValidationError"
            ELSE IF ~isValidCommitHash(plugin.commit) THEN "ValidationError"
            ELSE ValidatePlugins(Tail(plugins), pluginNames \cup {plugin.name})

validateConfig(cfg) ==
    IF Len(cfg.plugins) = 0 THEN "ValidationError"
    ELSE ValidatePlugins(cfg.plugins, {})

(***************************************************************************)
(* src/cli/commands/install.ts                                             *)
(***************************************************************************)
InstalledPlugin(name, repo, commit, installedAt, path) ==
    [name |-> name, repo |-> repo, commit |-> commit,
     installedAt |-> installedAt, path |-> path]

\* Lines 121-123: the path written to the lock file
LockEntryPath(cfg, name) ==
    IF cfg.installDir # NoInstallDir
    THEN Append(cfg.installDir, name)
    ELSE <<HomeDir, ".local/share/nvim/necromancer/plugins", name>>

\* lockFile.plugins.findIndex(p => p.name === name), 0 when there is none
findIndex(plugins, name) ==
    IF \E i \in DOMAIN plugins : plugins[i].name = name
    THEN CHOOSE i \in DOMAIN plugins :
            plugins[i].name = name /\ \A j \in 1..(i-1) : plugins[j].name # name
    ELSE 0

\* Mutant of Upsert: the entry is always appended
Upsert_Append(plugins, installedPlugin) == Append(plugins, installedPlugin)

\* Lines 126-132
Upsert(plugins, installedPlugin) ==
    LET existingIndex == findIndex(plugins, installedPlugin.name)
    IN IF existingIndex > 0
       THEN [plugins EXCEPT ![existingIndex] = installedPlugin]
       ELSE Append(plugins, installedPlugin)

\* Mutant of UpdateLockFile: a failed plugin is written to the lock file too
UpdateLockFile_Always(plugins, status, installedPlugin) ==
    Upsert(plugins, installedPlugin)

\* Lines 114-133: only a plugin that did not fail is written to the lock file
UpdateLockFile(plugins, status, installedPlugin) ==
    IF status \in {"success", "updated", "skipped"}
    THEN Upsert(plugins, installedPlugin)
    ELSE plugins

Verdict(name, status, error) == [name |-> name, status |-> status, error |-> error]

\* Mutant of InstallLoop: the loop ends at the first plugin that fails
RECURSIVE InstallLoop_StopOnFailure(_, _, _, _, _)
InstallLoop_StopOnFailure(cfg, i, oracle, now, acc) ==
    IF i > Len(cfg.plugins) THEN acc
    ELSE LET plugin == cfg.plugins[i]
             status == installPlugin(plugin, cfg.installDir, acc.disk, oracle[i])
             installedPlugin ==
                 InstalledPlugin(plugin.name, plugin.repo, plugin.commit, now,
                                 LockEntryPath(cfg, plugin.name))
             next ==
                [disk     |-> status.disk,
                 plugins  |-> UpdateLockFile(acc.plugins, status.status, installedPlugin),
                 verdicts |-> Append(acc.verdicts,
                                     Verdict(plugin.name, status.status, status.error)),
                 ops      |-> acc.ops \o status.ops]
         IN IF status.status = "failed" THEN next
            ELSE InstallLoop_StopOnFailure(cfg, i + 1, oracle, now, next)

\* Mutant of InstallLoop: a plugin that has an entry in the lock file is
\* taken to be installed and is skipped without looking at its directory
RECURSIVE InstallLoop_TrustLockFile(_, _, _, _, _)
InstallLoop_TrustLockFile(cfg, i, oracle, now, acc) ==
    IF i > Len(cfg.plugins) THEN acc
    ELSE LET plugin == cfg.plugins[i]
             status == IF findIndex(acc.plugins, plugin.name) > 0
                       THEN InstallationStatus(plugin, "skipped", "none", acc.disk, <<>>)
                       ELSE installPlugin(plugin, cfg.installDir, acc.disk, oracle[i])
             installedPlugin ==
                 InstalledPlugin(plugin.name, plugin.repo, plugin.commit, now,
                                 LockEntryPath(cfg, plugin.name))
         IN InstallLoop_TrustLockFile(cfg, i + 1, oracle, now,
                [disk     |-> status.disk,
                 plugins  |-> UpdateLockFile(acc.plugins, status.status, installedPlugin),
                 verdicts |-> Append(acc.verdicts,
                                     Verdict(plugin.name, status.status, status.error)),
                 ops      |-> acc.ops \o status.ops])

\* Lines 90-134: the loop over config.plugins, in array order.  acc carries
\* the filesystem, the in-memory lock file, the verdicts and the operation log.
RECURSIVE InstallLoop(_, _, _, _, _)
InstallLoop(cfg, i, oracle, now, acc) ==
    IF i > Len(cfg.plugins) THEN acc
    ELSE LET plugin == cfg.plugins[i]
             status == installPlugin(plugin, cfg.installDir, acc.disk, oracle[i])
             installedPlugin ==
                 InstalledPlugin(plugin.name, plugin.repo, plugin.commit, now,
                                 LockEntryPath(cfg, plugin.name))
         IN InstallLoop(cfg, i + 1, oracle, now,
                [disk     |-> status.disk,
                 plugins  |-> UpdateLockFile(acc.plugins, status.status, installedPlugin),
                 verdicts |-> Append(acc.verdicts,
                                     Verdict(plugin.name, status.status, status.error)),
                 ops      |-> acc.ops \o status.ops])

\* Lines 143-152: remove the directory of every orphan that exists; a
\* failure to remove is logged and the loop goes on.
RECURSIVE RemoveOrphans(_, _, _)
RemoveOrphans(orphans, rmFails, acc) ==
    IF orphans = <<>> THEN acc
    ELSE LET orphan == Head(orphans)
         IN IF existsSync(acc.disk, orphan.path)
            THEN LET r == rmSync(acc.disk, orphan.path, rmFails)
                 IN RemoveOrphans(Tail(orphans), rmFails,
                        [acc EXCEPT !.disk = r.disk,
                                    !.ops  = Append(@, Op("rm", orphan.name, r.ok))])
            ELSE RemoveOrphans(Tail(orphans), rmFails, acc)

\* Mutant of AutoClean: the orphans' directories are removed and their
\* entries are kept
AutoClean_KeepEntries(cfg, rmFails, acc) ==
    RemoveOrphans(SeqFilter(acc.plugins,
                      {p \in Range(acc.plugins) : p.name \notin PluginNames(cfg.plugins)}),
                  rmFails, acc)

\* Lines 136-157
AutoClean(cfg, rmFails, acc) ==
    LET configPluginNames == PluginNames(cfg.plugins)
        orphanedPlugins   ==
            SeqFilter(acc.plugins,
                      {p \in Range(acc.plugins) : p.name \notin configPluginNames})
    IN IF Len(orphanedPlugins) > 0
       THEN [RemoveOrphans(orphanedPlugins, rmFails, acc) EXCEPT
                !.plugins = SeqFilter(acc.plugins,
                      {p \in Range(acc.plugins) : p.name \in configPluginNames})]
       ELSE acc

\* Mutant of HandleAutoClean: orphans are removed whether or not
\* --auto-clean is given
HandleAutoClean_Always(autoClean, cfg, rmFails, acc) == AutoClean(cfg, rmFails, acc)

\* Line 137: if (options.autoClean)
HandleAutoClean(autoClean, cfg, rmFails, acc) ==
    IF autoClean THEN AutoClean(cfg, rmFails, acc) ELSE acc

\* The record of a command: its exit code, the class of the error it caught
\* at top level, how far it got ("validate": the configuration was rejected;
\* "readLock", "writeLock": that step threw; "done"), the verdict per plugin,
\* the operations it invoked, the lock file it held in memory at the end and
\* whether it wrote it.
NoRun ==
    [cmd |-> "none", autoClean |-> FALSE, fix |-> FALSE,
     dryRun |-> FALSE, force |-> FALSE, answer |-> FALSE, confirmed |-> FALSE,
     exit |-> 0, valid |-> FALSE, error |-> "none", phase |-> "none",
     verdicts |-> <<>>, ops |-> <<>>, plugins |-> <<>>, wrote |-> FALSE]

\* Mutant of ExitCode: a failed plugin is reported as a configuration error
ExitCode_FailureIsOne(failed) == IF failed = 0 THEN 0 ELSE 1

\* Lines 165-176: 0 when nothing failed, 2 (partial failure) otherwise
ExitCode(failed) == IF failed = 0 THEN 0 ELSE 2

\* install(), lines 62-185.  options.autoClean is the flag; env is what the
\* environment does during the run: env.oracle[i] is the operation that
\* fails for plugin i (if invoked), env.lockIO says whether reading or
\* writing the lock file fails, env.rmFails whether removing an orphan does.
\* The result is the record of the run with the filesystem and lock file
\* it leaves.
install(cfg, autoClean, env, d, lock, now) ==
    LET base == [NoRun EXCEPT !.cmd = "install", !.autoClean = autoClean]
    IN IF validateConfig(cfg) # "ok"
       THEN [rec |-> [base EXCEPT !.exit = 1, !.error = "ValidationError",
                                 !.phase = "validate"],
             disk |-> d, lockFile |-> lock]
       ELSE IF env.lockIO = "readFail"
       THEN [rec |-> [base EXCEPT !.exit = 1, !.error = "ConfigError",
                                 !.phase = "readLock"],
             disk |-> d, lockFile |-> lock]
       ELSE LET looped  == InstallLoop(cfg, 1, env.oracle, now,
                              [disk |-> d, plugins |-> lock,
                               verdicts |-> <<>>, ops |-> <<>>])
                cleaned == HandleAutoClean(autoClean, cfg, env.rmFails, looped)
                failed  == Cardinality({i \in DOMAIN cleaned.verdicts :
                                            cleaned.verdicts[i].status = "failed"})
                done    == [base EXCEPT !.verdicts = cleaned.verdicts,
                                        !.ops = cleaned.ops,
                                        !.plugins = cleaned.plugins]
            IN IF env.lockIO = "writeFail"
               THEN [rec |-> [done EXCEPT !.exit = 1, !.error = "ConfigError",
                                          !.phase = "writeLock"],
                     disk |-> cleaned.disk, lockFile |-> lock]
               ELSE [rec |-> [done EXCEPT !.exit = ExitCode(failed), !.wrote = TRUE,
                                          !.phase = "done"],
                     disk |-> cleaned.disk, lockFile |-> cleaned.plugins]

(***************************************************************************)
(* src/cli/commands/verify.ts                                              *)
(***************************************************************************)
\* Mutant of VerifyEntry: a corrupt installation is repaired without --fix
VerifyEntry_AlwaysFix(cfg, fix, installed, d, failAt) ==
    IF verifyInstallation(d, installed.path)
    THEN [status |-> "verified", disk |-> d, ops |-> <<>>]
    ELSE LET index == findIndex(cfg.plugins, installed.name)
         IN IF index > 0
            THEN LET r == repairPlugin(cfg.plugins[index], installed.path, d, failAt)
                 IN [status |-> IF r.ok THEN "repaired" ELSE "issue",
                     disk |-> r.disk, ops |-> r.ops]
            ELSE [status |-> "issue", disk |-> d, ops |-> <<>>]

\* Lines 78-112, one lock-file entry: verified; or, with --fix, repaired
\* from the configuration's definition of that name (an issue when there is
\* none or when repairPlugin throws); or, without --fix, an issue.
VerifyEntry(cfg, fix, installed, d, failAt) ==
    IF verifyInstallation(d, installed.path)
    THEN [status |-> "verified", disk |-> d, ops |-> <<>>]
    ELSE IF fix
    THEN LET index == findIndex(cfg.plugins, installed.name)
         IN IF index > 0
            THEN LET r == repairPlugin(cfg.plugins[index], installed.path, d, failAt)
                 IN [status |-> IF r.ok THEN "repaired" ELSE "issue",
                     disk |-> r.disk, ops |-> r.ops]
            ELSE [status |-> "issue", disk |-> d, ops |-> <<>>]
    ELSE [status |-> "issue", disk |-> d, ops |-> <<>>]

\* Lines 77-113: the loop over lockFile.plugins, in array order
RECURSIVE VerifyLoop(_, _, _, _, _, _)
VerifyLoop(cfg, fix, plugins, i, oracle, acc) ==
    IF i > Len(plugins) THEN acc
    ELSE LET installed == plugins[i]
             v == VerifyEntry(cfg, fix, installed, acc.disk, oracle[i])
         IN VerifyLoop(cfg, fix, plugins, i + 1, oracle,
                [disk     |-> v.disk,
                 verdicts |-> Append(acc.verdicts,
                                     Verdict(installed.name, v.status, "none")),
                 ops      |-> acc.ops \o v.ops])

\* Mutant of VerifyExitCode: issues are not reflected in the exit code
VerifyExitCode_AlwaysZero(issues) == 0

\* Line 125
VerifyExitCode(issues) == IF issues > 0 THEN 2 ELSE 0

\* verify(), lines 58-134.  A ValidationError thrown by parseConfigFile is
\* not a ConfigError, so it leaves through the last branch of the catch
\* (exit code 3); a lock file that cannot be read is a ConfigError (1).
\* env.oracle[i] is the operation that fails while entry i is repaired.
verify(cfg, fix, env, d, lock) ==
    LET base == [NoRun EXCEPT !.cmd = "verify", !.fix = fix, !.plugins = lock]
    IN IF validateConfig(cfg) # "ok"
       THEN [rec |-> [base EXCEPT !.exit = 3, !.error = "ValidationError",
                                 !.phase = "validate", !.plugins = <<>>],
             disk |-> d, lockFile |-> lock]
       ELSE IF env.lockIO = "readFail"
       THEN [rec |-> [base EXCEPT !.exit = 1, !.error = "ConfigError",
                                 !.phase = "readLock", !.plugins = <<>>],
             disk |-> d, lockFile |-> lock]
       ELSE IF Len(lock) = 0
       THEN [rec |-> [base EXCEPT !.exit = 2, !.phase = "done"],
             disk |-> d, lockFile |-> lock]
       ELSE LET looped == VerifyLoop(cfg, fix, lock, 1, env.oracle,
                              [disk |-> d, verdicts |-> <<>>, ops |-> <<>>])
                issues == Cardinality({i \in DOMAIN looped.verdicts :
                                           looped.verdicts[i].status = "issue"})
            IN [rec |-> [base EXCEPT !.exit = VerifyExitCode(issues),
                                     !.phase = "done",
                                     !.verdicts = looped.verdicts,
                                     !.ops = looped.ops],
                disk |-> looped.disk, lockFile |-> lock]

(***************************************************************************)
(* src/cli/commands/clean.ts                                               *)
(***************************************************************************)
\* Line 84 (and install.ts 139): the entries whose name the configuration
\* does not declare, in lock-file order
OrphanedPlugins(cfg, plugins) ==
    SeqFilter(plugins, {p \in Range(plugins) : p.name \notin PluginNames(cfg.plugins)})

\* Line 140 (and install.ts 153): the entries whose name the configuration
\* declares, in lock-file order
KeptPlugins(cfg, plugins) ==
    SeqFilter(plugins, {p \in Range(plugins) : p.name \in PluginNames(cfg.plugins)})

\* Mutant of CleanLoop: the directories are left in place
RECURSIVE CleanLoop_KeepDirectories(_, _, _, _)
CleanLoop_KeepDirectories(orphans, i, oracle, acc) ==
    IF i > Len(orphans) THEN acc
    ELSE CleanLoop_KeepDirectories(orphans, i + 1, oracle,
            [acc EXCEPT !.verdicts = Append(@, Verdict(orphans[i].name, "removed", "none"))])

\* Lines 122-137: remove the directory of every orphan, at the path
\* expandTilde makes of the recorded one; a failure to remove is counted
\* and the loop goes on.  oracle[i] says that removing orphan i fails.
RECURSIVE CleanLoop(_, _, _, _)
CleanLoop(orphans, i, oracle, acc) ==
    IF i > Len(orphans) THEN acc
    ELSE LET orphan == orphans[i]
             absolutePath == expandTilde(orphan.path)
         IN IF existsSync(acc.disk, absolutePath)
            THEN LET r == rmSync(acc.disk, absolutePath, oracle[i])
                 IN CleanLoop(orphans, i + 1, oracle,
                        [disk |-> r.disk,
                         verdicts |-> Append(acc.verdicts,
                             Verdict(orphan.name,
                                     IF r.ok THEN "removed" ELSE "failed",
                                     IF r.ok THEN "none" ELSE "Error")),
                         ops |-> Append(acc.ops, Op("rm", orphan.name, r.ok))])
            ELSE CleanLoop(orphans, i + 1, oracle,
                    [acc EXCEPT !.verdicts =
                        Append(@, Verdict(orphan.name, "removed", "none"))])

\* Mutant of CleanExitCode: a failed removal is not reflected in the exit code
CleanExitCode_AlwaysZero(failed) == 0

\* Lines 146-152
CleanExitCode(failed) == IF failed = 0 THEN 0 ELSE 2

\* Mutant of Confirmed: the answer to the prompt is ignored
Confirmed_Always(force, answer) == TRUE

\* Lines 110-116: --force skips the prompt, otherwise the answer decides
Confirmed(force, answer) == force \/ answer

\* clean(), lines 74-161.  dryRun and force are the flags, answer is what
\* the user replies if prompted.  A ValidationError thrown by
\* parseConfigFile is not a ConfigError, so it leaves through the last
\* branch of the catch (exit code 2); a lock file that cannot be read or
\* written is a ConfigError (1).
clean(cfg, dryRun, force, answer, env, d, lock) ==
    LET base == [NoRun EXCEPT !.cmd = "clean", !.dryRun = dryRun, !.force = force,
                              !.answer = answer, !.plugins = lock]
        orphanedPlugins == OrphanedPlugins(cfg, lock)
    IN IF validateConfig(cfg) # "ok"
       THEN [rec |-> [base EXCEPT !.exit = 2, !.error = "ValidationError",
                                 !.phase = "validate", !.plugins = <<>>],
             disk |-> d, lockFile |-> lock]
       ELSE IF env.lockIO = "readFail"
       THEN [rec |-> [base EXCEPT !.exit = 1, !.error = "ConfigError",
                                 !.phase = "readLock", !.plugins = <<>>],
             disk |-> d, lockFile |-> lock]
       ELSE IF Len(orphanedPlugins) = 0
       THEN [rec |-> [base EXCEPT !.exit = 0, !.phase = "noOrphans"],
             disk |-> d, lockFile |-> lock]
       ELSE IF dryRun
       THEN [rec |-> [base EXCEPT !.exit = 0, !.phase = "dryRun"],
             disk |-> d, lockFile |-> lock]
       ELSE IF ~Confirmed(force, answer)
       THEN [rec |-> [base EXCEPT !.exit = 0, !.phase = "cancelled"],
             disk |-> d, lockFile |-> lock]
       ELSE LET looped == CleanLoop(orphanedPlugins, 1, env.oracle,
                              [disk |-> d, verdicts |-> <<>>, ops |-> <<>>])
                failed == Cardinality({i \in DOMAIN looped.verdicts :
                                           looped.verdicts[i].status = "failed"})
                done   == [base EXCEPT !.confirmed = TRUE,
                                       !.verdicts = looped.verdicts,
                                       !.ops = looped.ops,
                                       !.plugins = KeptPlugins(cfg, lock)]
            IN IF env.lockIO = "writeFail"
               THEN [rec |-> [done EXCEPT !.exit = 1, !.error = "ConfigError",
                                          !.phase = "writeLock"],
                     disk |-> looped.disk, lockFile |-> lock]
               ELSE [rec |-> [done EXCEPT !.exit = CleanExitCode(failed),
                                          !.wrote = TRUE, !.phase = "done"],
                     disk |-> looped.disk, lockFile |-> KeptPlugins(cfg, lock)]

(***************************************************************************)
(* Bounded inputs                                                          *)
(***************************************************************************)
\* Names the install configurations declare, in declaration order, and a
\* name that only ever occurs in the lock file (an orphan) or as an
\* undeclared dependency.
CfgNames   == <<"a", "b">>
OrphanName == "c"

Config(plugins, installDir) == [plugins |-> plugins, installDir |-> installDir]

EmptyConfig == Config(<<>>, NoInstallDir)

Paths == {resolvePluginPath(n, NoInstallDir) : n \in Range(CfgNames) \cup {OrphanName}}

EmptyDisk == [p \in Paths |-> Absent]

\* absent, a directory without repository, a repository at the target, a
\* repository at another commit, a repository whose object names are not
\* 40 characters long (SHA-256 object format)
DirStates == {Absent, NotRepo, Repo(Target, 40), Repo(BranchTip, 40), Repo(BranchTip, 64)}

\* A lock-file entry written by an earlier run for another commit
OldEntry(name) ==
    InstalledPlugin(name, GitHubUrl("old", name),
                    CommitString(BranchTip, FALSE), 0,
                    resolvePluginPath(name, NoInstallDir))

\* The entries of the names in S, in the order of names
RECURSIVE OldEntries(_, _)
OldEntries(names, S) ==
    IF names = <<>> THEN <<>>
    ELSE (IF Head(names) \in S THEN <<OldEntry(Head(names))>> ELSE <<>>)
         \o OldEntries(Tail(names), S)

\* Configurations of 1..Len(CfgNames) plugins pinned to Target, the first
\* in either spelling and the others in lower case, with dependencies
\* drawn from depSets
InstallConfigs(depSets) ==
    {Config(ps, NoInstallDir) :
        ps \in UNION {
            {q \in [1..k -> {PluginDefinition(n, CommitString(Target, u), ds) :
                                n \in Range(CfgNames), u \in BOOLEAN, ds \in depSets}] :
                \A i \in 1..k : (q[i].name = CfgNames[i])
                                 /\ (i > 1 => ~q[i].commit.upper)}
            : k \in 1..Len(CfgNames)}}

\* Valid configurations that declare one or all of the CfgNames, pinned to
\* Target
LedgerConfigs ==
    {Config([i \in 1..k |-> PluginDefinition(CfgNames[i], CommitString(Target, FALSE), <<>>)],
            NoInstallDir) : k \in 1..Len(CfgNames)}

(***************************************************************************)
(* Actions                                                                 *)
(***************************************************************************)
Edges(plugins) ==
    LET RECURSIVE Sum(_)
        Sum(ps) == IF ps = <<>> THEN 0 ELSE Len(Head(ps).dependencies) + Sum(Tail(ps))
    IN Sum(plugins)

\* The user adds one plugin to the list.  Names are opaque to the code, so
\* a new name is always the next unused one of NamePool; a dependency may
\* name any of the first MaxPlugins names of the pool, declared or not.
Declare ==
    /\ resolved = NoResult
    /\ Len(config.plugins) < MaxPlugins
    /\ LET used == PluginNames(config.plugins)
           next == NamePool[Cardinality(used) + 1]
       IN \E name \in used \cup {next},
             deps \in SeqsUpTo({NamePool[i] : i \in 1..MaxPlugins},
                               MaxEdges - Edges(config.plugins)) :
             config' = [config EXCEPT !.plugins =
                          Append(@, PluginDefinition(name, CommitString(Target, FALSE), deps))]
    /\ UNCHANGED <<resolved, disk, lockFile, clock, run>>

\* resolveDependencies(config.plugins) is called
ResolveDependencies ==
    /\ resolved = NoResult
    /\ resolved' = resolveDependencies(config.plugins)
    /\ UNCHANGED <<config, disk, lockFile, clock, run>>

\* What the environment can do to the run: per plugin, no failure or the
\* failure of one operation that the plugin's reconciliation invokes
FailChoices(cfg, d) ==
    {o \in [1..Len(cfg.plugins) -> FailPoints] :
        \A i \in 1..Len(cfg.plugins) :
            o[i] = "none" \/
            installPlugin(cfg.plugins[i], cfg.installDir, d, o[i]).status = "failed"}

NoFailure(cfg) ==
    [oracle |-> [i \in 1..Len(cfg.plugins) |-> "none"], lockIO |-> "ok", rmFails |-> FALSE]

\* The lock file cannot be read; or it can, any of FailChoices happens, the
\* removal of an orphan's directory (if --auto-clean finds one) fails or
\* not, and the lock file can be written or not.
Envs(cfg, d, lock, autoClean) ==
    {[NoFailure(cfg) EXCEPT !.lockIO = "readFail"]}
    \cup {[oracle |-> o, lockIO |-> io, rmFails |-> rf] :
            o \in FailChoices(cfg, d), io \in {"ok", "writeFail"},
            rf \in IF autoClean /\ \E i \in DOMAIN lock :
                                    /\ lock[i].name \notin PluginNames(cfg.plugins)
                                    /\ existsSync(d, lock[i].path)
                   THEN BOOLEAN ELSE {FALSE}}

\* `necromancer install [--auto-clean]` runs to completion
Install ==
    /\ clock <= MaxRuns
    /\ \E autoClean \in BOOLEAN : \E env \in Envs(config, disk, lockFile, autoClean) :
          \E r \in {install(config, autoClean, env, disk, lockFile, clock)} :
             /\ disk' = r.disk
             /\ lockFile' = r.lockFile
             /\ run' = r.rec
    /\ clock' = clock + 1
    /\ UNCHANGED <<config, resolved>>

\* What the environment can do to a verify run: the lock file cannot be
\* read; or it can and, per lock-file entry, nothing fails or one operation
\* of its repair does.
VerifyEnvs(cfg, fix, d, lock) ==
    {[oracle |-> [i \in DOMAIN lock |-> "none"], lockIO |-> "readFail"]}
    \cup {[oracle |-> o, lockIO |-> "ok"] :
            o \in {f \in [DOMAIN lock -> FailPoints] :
                     \A i \in DOMAIN lock :
                        f[i] = "none" \/
                        /\ VerifyEntry(cfg, fix, lock[i], d, "none").status = "repaired"
                        /\ VerifyEntry(cfg, fix, lock[i], d, f[i]).status = "issue"}}

\* `necromancer verify [--fix]` runs to completion
Verify ==
    /\ clock <= MaxRuns
    /\ \E fix \in BOOLEAN : \E env \in VerifyEnvs(config, fix, disk, lockFile) :
          \E r \in {verify(config, fix, env, disk, lockFile)} :
             /\ disk' = r.disk
             /\ lockFile' = r.lockFile
             /\ run' = r.rec
    /\ clock' = clock + 1
    /\ UNCHANGED <<config, resolved>>

\* What the environment can do to a clean run: the lock file cannot be
\* read; or it can, the removal of each orphan's directory that exists fails
\* or not, and the lock file can be written or not.
CleanEnvs(cfg, d, lock) ==
    LET orphans == OrphanedPlugins(cfg, lock)
    IN {[oracle |-> [i \in DOMAIN orphans |-> FALSE], lockIO |-> "readFail"]}
       \cup {[oracle |-> o, lockIO |-> io] :
               o \in {f \in [DOMAIN orphans -> BOOLEAN] :
                        \A i \in DOMAIN orphans :
                           f[i] => existsSync(d, expandTilde(orphans[i].path))},
               io \in {"ok", "writeFail"}}

\* `necromancer clean [--dry-run] [--force]` runs to completion; answer is
\* the user's reply to the confirmation prompt, if it is shown
Clean ==
    /\ clock <= MaxRuns
    /\ \E dryRun \in BOOLEAN, force \in BOOLEAN, answer \in BOOLEAN :
          \E env \in CleanEnvs(config, disk, lockFile) :
             \E r \in {clean(config, dryRun, force, answer, env, disk, lockFile)} :
                /\ disk' = r.disk
                /\ lockFile' = r.lockFile
                /\ run' = r.rec
    /\ clock' = clock + 1
    /\ UNCHANGED <<config, resolved>>

\* The user types one more character of the first plugin's name
TypeName ==
    /\ run = NoRun
    /\ LET name == config.plugins[1].name
       IN /\ \/ Len(name) < MaxNameLen
             \/ Len(name) >= LongPrefix /\ Len(name) < LongPrefix + MaxNameLen
          /\ \E c \in NameAlphabet :
                config' = [config EXCEPT !.plugins[1].name = name \o c]
    /\ UNCHANGED <<resolved, disk, lockFile, clock, run>>

\* isValidPluginName is applied to the first plugin's name
ValidateName ==
    /\ run = NoRun
    /\ run' = [NoRun EXCEPT !.cmd = "isValidPluginName",
                            !.valid = isValidPluginName(config.plugins[1].name)]
    /\ UNCHANGED <<config, resolved, disk, lockFile, clock>>

\* The user edits the configuration file between two commands
EditConfig ==
    /\ clock <= MaxRuns
    /\ config' \in LedgerConfigs \ {config}
    /\ UNCHANGED <<resolved, disk, lockFile, clock, run>>

(***************************************************************************)
(* Specifications                                                          *)
(***************************************************************************)
\* Every plugin list of at most MaxPlugins plugins and MaxEdges dependency
\* entries is built and handed to resolveDependencies.
InitResolve ==
    /\ config = EmptyConfig
    /\ resolved = NoResult
    /\ disk = EmptyDisk
    /\ lockFile = <<>>
    /\ clock = 1
    /\ run = NoRun

NextResolve == Declare \/ ResolveDependencies

SpecResolve == InitResolve /\ [][NextResolve]_vars

\* install runs on a machine in any state: each declared plugin's directory
\* in any of DirStates, with or without an entry of an earlier run in the
\* lock file, and possibly an orphan.  The plugins declare no dependencies.
Init ==
    /\ config \in InstallConfigs({<<>>})
    /\ resolved = NoResult
    /\ \E orphan \in BOOLEAN :
        /\ disk \in {d \in [Paths -> DirStates] :
                /\ \A n \in Range(CfgNames) \ PluginNames(config.plugins) :
                        d[resolvePluginPath(n, NoInstallDir)] = Absent
                /\ d[resolvePluginPath(OrphanName, NoInstallDir)] =
                        IF orphan THEN Repo(BranchTip, 40) ELSE Absent}
        /\ lockFile \in {OldEntries(CfgNames \o <<OrphanName>>, S) :
                S \in {T \in SUBSET (PluginNames(config.plugins) \cup {OrphanName}) :
                            (OrphanName \in T) = orphan}}
    /\ clock = 1
    /\ run = NoRun

Next == Install

Spec == Init /\ [][Next]_vars

\* install runs on a fresh machine with configurations whose plugins declare
\* dependencies: on each other, on themselves, on an undeclared plugin.
InitDeps ==
    /\ config \in InstallConfigs(SeqsUpTo(Range(CfgNames) \cup {OrphanName}, 1))
    /\ resolved = NoResult
    /\ disk = EmptyDisk
    /\ lockFile = <<>>
    /\ clock = 1
    /\ run = NoRun

SpecDeps == InitDeps /\ [][Next]_vars

\* Plugin declarations as a user may write them: well-formed ones for the
\* names of CfgNames, and ones with a missing or ill-formed name, an
\* ill-formed URL (wrong scheme, wrong host, no owner) or an abbreviated
\* commit.
SamplePlugins ==
    LET good(n) == PluginDefinition(n, CommitString(Target, FALSE), <<>>)
        b       == good(CfgNames[2])
    IN {good(n) : n \in Range(CfgNames)}
       \cup {[b EXCEPT !.name = n] : n \in {"", "-x", "a b"}}
       \cup {[b EXCEPT !.repo = u] :
                u \in {Url("http", "github.com", "owner", b.name),
                       Url("https", "gitlab.com", "owner", b.name),
                       GitHubUrl("", b.name)}}
       \cup {[b EXCEPT !.commit.len = 7]}

\* install runs against every list of at most Len(CfgNames) of the
\* SamplePlugins (the empty list and lists with a repeated name included),
\* on a machine where the plugins of CfgNames are all absent or all
\* checked out at another commit, with or without lock-file entries.
InitInvalid ==
    /\ config \in {Config(ps, NoInstallDir) :
                      ps \in SeqsUpTo(SamplePlugins, Len(CfgNames))}
    /\ resolved = NoResult
    /\ disk \in {EmptyDisk,
                 [p \in Paths |->
                    IF p \in {resolvePluginPath(n, NoInstallDir) : n \in Range(CfgNames)}
                    THEN Repo(BranchTip, 40) ELSE Absent]}
    /\ lockFile \in {<<>>, OldEntries(CfgNames, Range(CfgNames))}
    /\ clock = 1
    /\ run = NoRun

SpecInvalid == InitInvalid /\ [][Next]_vars

\* The configurations verify is run with: one or all of the CfgNames pinned
\* to NewTarget, and a list that validateConfig rejects (a repeated name).
VerifyConfigs ==
    LET good(n) == PluginDefinition(n, CommitString(NewTarget, FALSE), <<>>)
    IN {Config(ps, NoInstallDir) :
          ps \in {<<good(CfgNames[1])>>,
                  [i \in DOMAIN CfgNames |-> good(CfgNames[i])],
                  <<good(CfgNames[1]), good(CfgNames[1])>>}}

\* verify runs on a machine in any state: the lock file has entries of an
\* earlier run for any of the CfgNames and the OrphanName (or none at all),
\* and the directory of each entry is in any of DirStates.
InitVerify ==
    /\ config \in VerifyConfigs
    /\ resolved = NoResult
    /\ \E S \in SUBSET (Range(CfgNames) \cup {OrphanName}) :
          /\ lockFile = OldEntries(CfgNames \o <<OrphanName>>, S)
          /\ disk \in {d \in [Paths -> DirStates] :
                  \A n \in (Range(CfgNames) \cup {OrphanName}) \ S :
                      d[resolvePluginPath(n, NoInstallDir)] = Absent}
    /\ clock = 1
    /\ run = NoRun

NextVerify == Verify

SpecVerify == InitVerify /\ [][NextVerify]_vars

\* The configurations clean is run with: one or all of the CfgNames pinned
\* to Target, and a list that validateConfig rejects (a repeated name)
CleanConfigs ==
    LET good(n) == PluginDefinition(n, CommitString(Target, FALSE), <<>>)
    IN {Config(ps, NoInstallDir) :
          ps \in {<<good(CfgNames[1])>>,
                  [i \in DOMAIN CfgNames |-> good(CfgNames[i])],
                  <<good(CfgNames[1]), good(CfgNames[1])>>}}

\* clean runs on a machine in any state: the lock file has entries of an
\* earlier run for any of the CfgNames and the OrphanName, and every
\* directory is in any of DirStates.
InitClean ==
    /\ config \in CleanConfigs
    /\ resolved = NoResult
    /\ lockFile \in {OldEntries(CfgNames \o <<OrphanName>>, S) :
                        S \in SUBSET (Range(CfgNames) \cup {OrphanName})}
    /\ disk \in [Paths -> {Absent, NotRepo, Repo(Target, 40)}]
    /\ clock = 1
    /\ run = NoRun

NextClean == Clean

SpecClean == InitClean /\ [][NextClean]_vars

\* The installDir values a configuration may carry: absent, an absolute
\* path, a path beginning with ~
InstallDirs == {NoInstallDir, <<"/opt/plugins">>, <<"~", "plugins">>}

\* Every path install or verify may touch under some installDir: the one
\* installPlugin resolves and the one install writes to the lock file
InstallDirPaths ==
    UNION {{resolvePluginPath(n, dir), LockEntryPath(Config(<<>>, dir), n)} :
              n \in Range(CfgNames), dir \in InstallDirs}

\* install and verify run, in any order, on a fresh machine, with one or
\* all of the CfgNames pinned to Target under each of the InstallDirs.
InitInstallDir ==
    /\ config \in {Config(ps, dir) :
                      ps \in {[i \in 1..k |->
                                PluginDefinition(CfgNames[i], CommitString(Target, FALSE), <<>>)] :
                             k \in 1..Len(CfgNames)},
                      dir \in InstallDirs}
    /\ resolved = NoResult
    /\ disk = [p \in InstallDirPaths |-> Absent]
    /\ lockFile = <<>>
    /\ clock = 1
    /\ run = NoRun

NextInstallDir == Install \/ Verify

SpecInstallDir == InitInstallDir /\ [][NextInstallDir]_vars

\* install, verify and clean run in any order, and the configuration is
\* edited in between, on a machine whose lock file has at most one entry
\* per name and where the recorded plugins are all absent or all checked
\* out at another commit.
InitLedger ==
    /\ config \in LedgerConfigs
    /\ resolved = NoResult
    /\ \E S \in SUBSET (Range(CfgNames) \cup {OrphanName}) :
          /\ lockFile = OldEntries(CfgNames \o <<OrphanName>>, S)
          /\ disk \in {EmptyDisk,
                        [p \in Paths |->
                           IF p \in {resolvePluginPath(n, NoInstallDir) : n \in S}
                           THEN Repo(BranchTip, 40) ELSE Absent]}
    /\ clock = 1
    /\ run = NoRun

NextLedger == Install \/ Verify \/ Clean \/ EditConfig

SpecLedger == InitLedger /\ [][NextLedger]_vars

\* Plugin declarations and installDir values with and without a shell
\* metacharacter in a field
MetacharPlugins ==
    LET good(n) == PluginDefinition(n, CommitString(Target, FALSE), <<>>)
        b       == good(CfgNames[2])
    IN {good(n) : n \in Range(CfgNames)}
       \cup {[b EXCEPT !.name = n] : n \in {"a;b", "$(id)"}}
       \cup {[b EXCEPT !.repo = u] :
                u \in {GitHubUrl("x|y", b.name), GitHubUrl("owner", "$(id)")}}

MetacharInstallDirs == {NoInstallDir, <<"/opt/plugins">>, <<"/opt", "$(id)">>}

MetacharPaths ==
    {resolvePluginPath(n, dir) : n \in Range(CfgNames), dir \in MetacharInstallDirs}

\* install runs on a fresh machine against every list of at most
\* Len(CfgNames) of the MetacharPlugins under each of the MetacharInstallDirs.
InitMetachar ==
    /\ config \in {Config(ps, dir) :
                      ps \in SeqsUpTo(MetacharPlugins, Len(CfgNames)),
                      dir \in MetacharInstallDirs}
    /\ resolved = NoResult
    /\ disk = [p \in MetacharPaths |-> Absent]
    /\ lockFile = <<>>
    /\ clock = 1
    /\ run = NoRun

SpecMetachar == InitMetachar /\ [][Next]_vars

\* Every name of at most MaxNameLen characters of NameAlphabet, alone or
\* after LongPrefix times "a", is typed and handed to isValidPluginName.
InitName ==
    /\ config \in {Config(<<PluginDefinition(n, CommitString(Target, FALSE), <<>>)>>,
                           NoInstallDir) : n \in {"", Repeat("a", LongPrefix)}}
    /\ resolved = NoResult
    /\ disk = EmptyDisk
    /\ lockFile = <<>>
    /\ clock = 1
    /\ run = NoRun

NextName == TypeName \/ ValidateName

SpecName == InitName /\ [][NextName]_vars

\* The first install run on the machine
InstallFirst == clock = 1 /\ Install

\* One install runs on a machine in any state (the initial states of Spec)
SpecFirst == Init /\ [][InstallFirst]_vars

\* The user adds one plugin under the next unused name of NamePool, so the
\* names are unique and declared in the order of NamePool; a dependency may
\* name any of the first MaxOrdered names of the pool.
DeclareOrdered ==
    /\ resolved = NoResult
    /\ Len(config.plugins) < MaxOrdered
    /\ \E deps \in SeqsUpTo({NamePool[i] : i \in 1..MaxOrdered},
                            MaxEdges - Edges(config.plugins)) :
          config' = [config EXCEPT !.plugins =
                       Append(@, PluginDefinition(NamePool[Len(config.plugins) + 1],
                                                  CommitString(Target, FALSE), deps))]
    /\ UNCHANGED <<resolved, disk, lockFile, clock, run>>

\* Every list of at most MaxOrdered uniquely named plugins and MaxEdges
\* dependency entries is built and handed to resolveDependencies.
InitOrder ==
    /\ config = EmptyConfig
    /\ resolved = NoResult
    /\ disk = EmptyDisk
    /\ lockFile = <<>>
    /\ clock = 1
    /\ run = NoRun

NextOrder == DeclareOrdered \/ ResolveDependencies

SpecOrder == InitOrder /\ [][NextOrder]_vars

(***************************************************************************)
(* The dependency relation of a plugin list, defined without reference to  *)
(* the sort                                                                *)
(***************************************************************************)
\* <<p, d>>: the plugin named p lists d in its dependencies
DependencyEdges(plugins) ==
    UNION {{<<plugins[i].name, d>> : d \in Range(plugins[i].dependencies)} :
            i \in DOMAIN plugins}

\* R followed by at most k more steps of R
RECURSIVE Grow(_, _, _)
Grow(C, R, k) ==
    IF k = 0 THEN C
    ELSE Grow(C \cup UNION {{<<x[1], y[2]>> : y \in {y \in R : y[1] = x[2]}} : x \in C},
              R, k - 1)

\* <<p, d>>: p depends on d, directly or transitively
DependsOn(plugins) ==
    Grow(DependencyEdges(plugins), DependencyEdges(plugins), Len(plugins))

UniqueNames(plugins) ==
    \A i, j \in DOMAIN plugins : plugins[i].name = plugins[j].name => i = j

AllDeclared(plugins) ==
    \A i \in DOMAIN plugins :
        Range(plugins[i].dependencies) \subseteq PluginNames(plugins)

OnCycle(plugins, n) == <<n, n>> \in DependsOn(plugins)

HasCycle(plugins) == \E n \in PluginNames(plugins) : OnCycle(plugins, n)

\* Position of the plugin named n in a sequence of plugins, 0 when absent
Position(order, n) == IndexOf([i \in DOMAIN order |-> order[i].name], n)

Called == resolved # NoResult

(***************************************************************************)
(* C1: for a plugin list with unique names, all dependencies declared and  *)
(* no cycle, resolveDependencies returns a sequence in which every plugin  *)
(* appears, after every plugin it depends on directly or transitively.     *)
(***************************************************************************)
C1_OrderRespectsDependencies ==
    (/\ Called
     /\ UniqueNames(config.plugins)
     /\ AllDeclared(config.plugins)
     /\ ~HasCycle(config.plugins))
    => /\ resolved.ok
       /\ \A n \in PluginNames(config.plugins) : Position(resolved.order, n) > 0
       /\ \A e \in DependsOn(config.plugins) :
             Position(resolved.order, e[2]) < Position(resolved.order, e[1])

\* A chain of three plugins declared dependents first has been resolved.
C1_Witness ==
    /\ resolved.ok
    /\ Len(config.plugins) = 3
    /\ UniqueNames(config.plugins)
    /\ \E i, j, k \in 1..3 :
          /\ i < j /\ j < k
          /\ config.plugins[i].dependencies = <<config.plugins[j].name>>
          /\ config.plugins[j].dependencies = <<config.plugins[k].name>>
          /\ Position(resolved.order, config.plugins[k].name)
                < Position(resolved.order, config.plugins[i].name)

(***************************************************************************)
(* C3: for a plugin list with unique names and all dependencies declared,  *)
(* resolveDependencies throws (the circular-dependency ValidationError)    *)
(* exactly when the dependency graph has a cycle, and the error names      *)
(* exactly the plugins that are on a cycle or depend on one that is.       *)
(***************************************************************************)
\* n is on a cycle or depends, directly or transitively, on a plugin on one
Stuck(plugins, n) ==
    \/ OnCycle(plugins, n)
    \/ \E m \in PluginNames(plugins) :
            <<n, m>> \in DependsOn(plugins) /\ OnCycle(plugins, m)

C3_CycleErrorNamesUnresolved ==
    (/\ Called
     /\ UniqueNames(config.plugins)
     /\ AllDeclared(config.plugins))
    => /\ resolved.kind \in {"ok", "circular"}
       /\ (resolved.kind = "circular") = HasCycle(config.plugins)
       /\ resolved.kind = "circular" =>
             Range(resolved.remaining) =
                {n \in PluginNames(config.plugins) : Stuck(config.plugins, n)}

\* The error names a plugin that is on no cycle but depends on one, and
\* leaves out a plugin that could be resolved.
C3_Witness ==
    /\ resolved.kind = "circular"
    /\ UniqueNames(config.plugins)
    /\ AllDeclared(config.plugins)
    /\ \E n \in Range(resolved.remaining) : ~OnCycle(config.plugins, n)
    /\ \E n \in PluginNames(config.plugins) : n \notin Range(resolved.remaining)

(***************************************************************************)
(* C4: when some dependencies entry names a plugin that is not declared,   *)
(* resolveDependencies throws the missing-dependency ValidationError,      *)
(* which names a dependent and a name it lists that is not declared, even  *)
(* when the list also has a cycle.                                         *)
(***************************************************************************)
C4_MissingDependencyFirst ==
    (Called /\ ~AllDeclared(config.plugins))
    => /\ resolved.kind = "missing"
       /\ resolved.dep \notin PluginNames(config.plugins)
       /\ \E i \in DOMAIN config.plugins :
             /\ config.plugins[i].name = resolved.plugin
             /\ resolved.dep \in Range(config.plugins[i].dependencies)

\* The missing-dependency error was raised for a list that also has a cycle,
\* the missing name not being the first entry of its dependencies array.
C4_Witness ==
    /\ resolved.kind = "missing"
    /\ HasCycle(config.plugins)
    /\ \E i \in DOMAIN config.plugins :
          /\ config.plugins[i].name = resolved.plugin
          /\ Len(config.plugins[i].dependencies) >= 2
          /\ config.plugins[i].dependencies[1] # resolved.dep

(***************************************************************************)
(* Reading the record of an install run                                    *)
(***************************************************************************)
\* The last command was install and it went through its loop over the plugins
Reconciled(r) == r.cmd = "install" /\ r.phase \in {"writeLock", "done"}

NoneFailed(r) == \A i \in DOMAIN r.verdicts : r.verdicts[i].status # "failed"

\* The operations the run invoked for the plugin named n, in order
OpsOf(r, n) == SeqFilter(r.ops, {o \in Range(r.ops) : o.name = n})

\* The lock-file entries of the plugin named n, in order
EntriesOf(plugins, n) == SeqFilter(plugins, {e \in Range(plugins) : e.name = n})

(***************************************************************************)
(* C2: install reconciles plugins in dependency order: every operation on  *)
(* a plugin D comes before any operation on a plugin P that depends on D,  *)
(* whatever the declaration order.                                         *)
(***************************************************************************)
C2_DependenciesReconciledFirst ==
    (/\ Reconciled(run)
     /\ UniqueNames(config.plugins)
     /\ AllDeclared(config.plugins)
     /\ ~HasCycle(config.plugins))
    => \A i, j \in DOMAIN run.ops :
          <<run.ops[j].name, run.ops[i].name>> \in DependencyEdges(config.plugins)
            => i < j

(***************************************************************************)
(* C5: when the declared set has a dependency cycle or a dependency on an  *)
(* undeclared plugin, install ends with exit code 1 (ValidationError) and  *)
(* has invoked no clone, checkout or removal.                              *)
(***************************************************************************)
C5_DependencyErrorsAbortInstall ==
    (/\ run.cmd = "install"
     /\ HasCycle(config.plugins) \/ ~AllDeclared(config.plugins))
    => /\ run.exit = 1
       /\ run.error = "ValidationError"
       /\ run.ops = <<>>

(***************************************************************************)
(* C6: when an install run in which no plugin failed is followed by a      *)
(* second install run with the same options, every verdict of the second   *)
(* run is skipped and the second run invokes no clone, checkout or         *)
(* removal.                                                                *)
(***************************************************************************)
C6_SecondRunAllSkipped ==
    [][(/\ run.cmd = "install" /\ run.phase = "done" /\ NoneFailed(run)
        /\ run'.cmd = "install" /\ run'.phase = "done"
        /\ run'.autoClean = run.autoClean)
       => /\ \A i \in DOMAIN run'.verdicts : run'.verdicts[i].status = "skipped"
          /\ run'.ops = <<>>]_vars

(***************************************************************************)
(* C7: whatever the state of a plugin's directory, if every operation that *)
(* installPlugin invokes for it succeeds, the verdict is not failed and    *)
(* the directory is left a repository checked out at the declared commit;  *)
(* when the directory was absent the verdict is success.                   *)
(***************************************************************************)
C7_ConvergesWhenOperationsSucceed ==
    [][Reconciled(run') =>
        \A i \in DOMAIN run'.verdicts :
            LET plugin == config.plugins[i]
                path   == resolvePluginPath(plugin.name, config.installDir)
                ops    == OpsOf(run', plugin.name)
            IN (\A k \in DOMAIN ops : ops[k].ok)
               => /\ run'.verdicts[i].status \in {"success", "updated", "skipped"}
                  /\ disk'[path] = Repo(plugin.commit.id, 40)
                  /\ disk[path] = Absent => run'.verdicts[i].status = "success"]_vars

\* A plugin whose directory was absent (cloned without a removal) has
\* verdict success, another plugin was repaired (removed, cloned, checked
\* out), and both directories are at their declared commit.
C7_Witness ==
    /\ Reconciled(run)
    /\ \E i \in DOMAIN run.verdicts :
          /\ run.verdicts[i].status = "success"
          /\ OpsOf(run, run.verdicts[i].name) =
                <<Op("clone", run.verdicts[i].name, TRUE),
                  Op("checkout", run.verdicts[i].name, TRUE)>>
    /\ \E i \in DOMAIN run.verdicts :
          /\ run.verdicts[i].status = "success"
          /\ Len(OpsOf(run, run.verdicts[i].name)) = 3
    /\ \A i \in DOMAIN config.plugins :
          disk[resolvePluginPath(config.plugins[i].name, config.installDir)]
            = Repo(config.plugins[i].commit.id, 40)

(***************************************************************************)
(* C8: a failed verdict does not stop the run: an install run that reaches *)
(* its loop gives every declared plugin exactly one verdict, in the order  *)
(* of config.plugins, whatever the verdicts before it; a failing operation *)
(* becomes that plugin's failed verdict and not an error of the command.   *)
(***************************************************************************)
C8_EveryPluginReconciledOnce ==
    Reconciled(run)
    => /\ [i \in DOMAIN run.verdicts |-> run.verdicts[i].name]
            = [i \in DOMAIN config.plugins |-> config.plugins[i].name]
       /\ \A i \in DOMAIN run.verdicts :
             (\E o \in Range(OpsOf(run, run.verdicts[i].name)) : ~o.ok)
                => /\ run.verdicts[i].status = "failed"
                   /\ run.verdicts[i].error = "GitError"
       /\ run.phase = "done" => run.error = "none" /\ run.exit \in {0, 2}

\* The first plugin failed and the second was installed after it.
C8_Witness ==
    /\ Reconciled(run)
    /\ Len(run.verdicts) = 2
    /\ run.verdicts[1].status = "failed"
    /\ run.verdicts[2].status = "success"

NamesOf(order) == [i \in DOMAIN order |-> order[i].name]

\* Length of the longest chain of dependencies below the plugin named n, in
\* a list without cycle whose dependencies are all declared
RECURSIVE Level(_, _, _)
Level(plugins, n, fuel) ==
    LET deps == UNION {Range(plugins[i].dependencies) :
                          i \in {j \in DOMAIN plugins : plugins[j].name = n}}
        below == {Level(plugins, d, fuel - 1) : d \in deps}
    IN IF deps = {} \/ fuel = 0 THEN 0
       ELSE 1 + CHOOSE m \in below : \A k \in below : k <= m

\* The plugins i and j of the configuration, i declared first, are in that
\* order in the resolved sequence
KeptOrder(i, j) ==
    Position(resolved.order, config.plugins[i].name)
        < Position(resolved.order, config.plugins[j].name)

(***************************************************************************)
(* C14: resolveDependencies keeps the declaration order among the plugins  *)
(* without dependencies and among the plugins whose only dependency is one *)
(* same plugin D: [A, B, C, D] with A, B, C depending on D gives           *)
(* [D, A, B, C], and a list without dependencies is returned as declared.  *)
(***************************************************************************)
C14_DeclarationOrderKept ==
    (Called /\ resolved.ok) =>
        /\ \A i, j \in DOMAIN config.plugins :
              (/\ i < j
               /\ Len(config.plugins[i].dependencies) <= 1
               /\ config.plugins[i].dependencies = config.plugins[j].dependencies)
              => KeptOrder(i, j)
        /\ (\A i \in DOMAIN config.plugins : config.plugins[i].dependencies = <<>>)
              => resolved.order = config.plugins

\* [a, b, c, d] with a, b, c each depending only on d was resolved to
\* [d, a, b, c].
C14_Witness ==
    /\ resolved.ok
    /\ NamesOf(config.plugins) = <<"a", "b", "c", "d">>
    /\ \A i \in 1..3 : config.plugins[i].dependencies = <<"d">>
    /\ config.plugins[4].dependencies = <<>>
    /\ NamesOf(resolved.order) = <<"d", "a", "b", "c">>

DirOf(d, i) == d[resolvePluginPath(config.plugins[i].name, config.installDir)]

\* A repository whose HEAD is a 40-character object name
ValidRepo(dir) == dir.kind = "repo" /\ dir.len = 40

C13_AtTargetIsSkipped ==
    [][Reconciled(run') =>
        \A i \in DOMAIN run'.verdicts :
            LET plugin == config.plugins[i]
            IN (ValidRepo(DirOf(disk, i)) /\ DirOf(disk, i).head = plugin.commit.id)
               => /\ run'.verdicts[i].status = "skipped"
                  /\ OpsOf(run', plugin.name) = <<>>]_vars

(***************************************************************************)
(* C11: when a declared plugin has an invalid name, URL or commit, or two  *)
(* declared plugins share a name, or the plugin list is empty, install     *)
(* returns 1 and has invoked no operation, changed no directory and not    *)
(* written the lock file.                                                  *)
(***************************************************************************)
\* The configuration breaks one of the rules, read off the values
InvalidConfig(cfg) ==
    \/ Len(cfg.plugins) = 0
    \/ ~UniqueNames(cfg.plugins)
    \/ \E i \in DOMAIN cfg.plugins :
          \/ cfg.plugins[i].name \in {"", "-x", "a b"}
          \/ cfg.plugins[i].repo.scheme # "https"
          \/ cfg.plugins[i].repo.host # "github.com"
          \/ cfg.plugins[i].repo.owner = ""
          \/ cfg.plugins[i].commit.len # 40

DirAt(d, e) == d[e.path]

\* The entry's directory was corrupt before the step and is, after it, a
\* valid repository at the commit the configuration declares for that name
RepairedFromConfig(e) ==
    /\ ~ValidRepo(DirAt(disk, e))
    /\ \E i \in DOMAIN config.plugins :
          /\ config.plugins[i].name = e.name
          /\ DirAt(disk', e) = Repo(config.plugins[i].commit.id, 40)

\* Every lock-file entry passes, or verify --fix repairs it
AllPassOrRepaired ==
    /\ Len(lockFile) > 0
    /\ \A i \in DOMAIN lockFile :
          \/ ValidRepo(DirAt(disk, lockFile[i]))
          \/ run'.fix /\ RepairedFromConfig(lockFile[i])

(***************************************************************************)
(* C16: verify without --fix changes nothing: it invokes no clone, no      *)
(* checkout and no removal and does not write the lock file, whatever      *)
(* corruption it detects.                                                  *)
(***************************************************************************)
C16_VerifyIsReadOnly ==
    [][(run'.cmd = "verify" /\ ~run'.fix) =>
        /\ run'.ops = <<>>
        /\ ~run'.wrote
        /\ disk' = disk
        /\ lockFile' = lockFile]_vars

\* verify without --fix reported a missing directory and a directory that
\* is not a repository, and both are still as they were.
C16_Witness ==
    /\ run.cmd = "verify" /\ ~run.fix /\ run.phase = "done" /\ run.exit = 2
    /\ \E i, j \in DOMAIN lockFile :
          /\ run.verdicts[i].status = "issue"
          /\ DirAt(disk, lockFile[i]) = Absent
          /\ run.verdicts[j].status = "issue"
          /\ DirAt(disk, lockFile[j]) = NotRepo

C18_FixedThenVerified ==
    [][(/\ run.cmd = "verify" /\ run.fix /\ run.exit = 0
        /\ run'.cmd = "verify" /\ ~run'.fix /\ run'.phase = "done")
       => /\ run'.exit = 0
          /\ \A i \in DOMAIN run'.verdicts : run'.verdicts[i].status = "verified"
          /\ \A i \in DOMAIN lockFile : ValidRepo(DirAt(disk, lockFile[i]))]_vars

\* The second of two commands, verify without --fix, returned 0, and both
\* entries of the lock file are at NewTarget: each was corrupt and was
\* repaired by the verify --fix before it, which therefore returned 0.
C18_Witness ==
    /\ run.cmd = "verify" /\ ~run.fix /\ run.phase = "done" /\ run.exit = 0
    /\ clock = 3
    /\ Len(lockFile) = 2
    /\ \A i \in DOMAIN lockFile : DirAt(disk, lockFile[i]) = Repo(NewTarget, 40)

(***************************************************************************)
(* C20: verify reports an issue, and returns 2, for every installed        *)
(* plugin whose checked-out revision differs from the revision the lock    *)
(* file records for it, even when the directory is a valid repository.     *)
(***************************************************************************)
C20_VerifyComparesRevision ==
    [][(run'.cmd = "verify" /\ run'.phase = "done") =>
        \A i \in DOMAIN lockFile :
            (/\ ValidRepo(DirAt(disk, lockFile[i]))
             /\ DirAt(disk, lockFile[i]).head # lockFile[i].commit.id)
            => /\ run'.exit = 2
               /\ run'.verdicts[i].status = "issue"]_vars

(***************************************************************************)
(* C19: after install returns 0 for a valid configuration, whatever its    *)
(* installDir (absent, absolute, beginning with ~), verify returns 0:      *)
(* every path in the lock file is the directory install populated and      *)
(* passes corruption detection.                                            *)
(***************************************************************************)
C19_VerifyAfterInstall ==
    [][(/\ run.cmd = "install" /\ run.exit = 0
        /\ run'.cmd = "verify" /\ run'.phase = "done")
       => /\ run'.exit = 0
          /\ \A i \in DOMAIN lockFile :
                /\ lockFile[i].path = resolvePluginPath(lockFile[i].name, config.installDir)
                /\ ValidRepo(DirAt(disk, lockFile[i]))]_vars

(***************************************************************************)
(* clean                                                                   *)
(***************************************************************************)
\* The entries of the lock file whose name the configuration does not declare
IsOrphan(e) == e.name \notin PluginNames(config.plugins)

\* The directories clean looks at for the orphans of the lock file
OrphanPaths == {expandTilde(lockFile[i].path) :
                   i \in {j \in DOMAIN lockFile : IsOrphan(lockFile[j])}}

\* The step is a clean run that got past the confirmation (--force, or the
\* prompt answered yes) with at least one orphan
CleanWentAhead == run'.cmd = "clean" /\ run'.confirmed

\* After the step no orphan of the lock file has a directory or an entry
OrphansRemoved ==
    \A i \in DOMAIN lockFile :
        IsOrphan(lockFile[i]) =>
            /\ ~existsSync(disk', expandTilde(lockFile[i].path))
            /\ \A j \in DOMAIN lockFile' : lockFile'[j].name # lockFile[i].name

\* The step leaves every directory that is not an orphan's, and every entry
\* of a configured plugin, as it was
ConfiguredUntouched ==
    /\ \A p \in DOMAIN disk : p \notin OrphanPaths => disk'[p] = disk[p]
    /\ KeptPlugins(config, lockFile') = KeptPlugins(config, lockFile)

NoOrphan == \A i \in DOMAIN lockFile : ~IsOrphan(lockFile[i])

\* The step is a clean run that showed the prompt and was answered no
Declined ==
    /\ ~run'.dryRun /\ ~run'.force /\ ~run'.answer
    /\ run'.phase \notin {"validate", "readLock", "noOrphans"}

\* The step returns 0 and changes no directory and not the lock file
QuietSuccess == run'.exit = 0 /\ disk' = disk /\ lockFile' = lockFile

LockNames == {lockFile[i].name : i \in DOMAIN lockFile}

C25_LockPathsExist ==
    (run.cmd = "install" /\ run.wrote) =>
        \A i \in DOMAIN lockFile : existsSync(disk, lockFile[i].path)

(***************************************************************************)
(* The lock file across commands                                           *)
(***************************************************************************)
\* C26: starting from a lock file with at most one entry per name, after
\* any sequence of install, verify and clean runs on valid configurations
\* the lock file has at most one entry per name.
C26_OneEntryPerName ==
    \A i, j \in DOMAIN lockFile : lockFile[i].name = lockFile[j].name => i = j

\* C26 witness: after two commands, the last an install that wrote the lock
\* file, the lock file holds an entry written by that install next to an
\* entry of an earlier run
C26_Witness ==
    /\ clock = 3 /\ run.cmd = "install" /\ run.wrote
    /\ \E i, j \in DOMAIN lockFile :
          lockFile[i].installedAt = 2 /\ lockFile[j].installedAt < 2

(***************************************************************************)
(* Shell metacharacters                                                    *)
(***************************************************************************)
\* Some plugin name, repository URL or the installDir of the configuration
\* has a shell metacharacter
ConfigHasMetachar(cfg) ==
    \/ \E i \in DOMAIN cfg.plugins :
          \/ sanitizeShellInput(cfg.plugins[i].name) # "ok"
          \/ sanitizeShellInput(cfg.plugins[i].repo.owner) # "ok"
          \/ sanitizeShellInput(cfg.plugins[i].repo.repo) # "ok"
    \/ \E i \in DOMAIN cfg.installDir : sanitizeShellInput(cfg.installDir[i]) # "ok"

\* C27: install rejects, with exit code 1 and before any git command, every
\* configuration in which a plugin name, a repository URL or the installDir
\* has a shell metacharacter.
C27_MetacharactersRejected ==
    (run.cmd = "install" /\ ConfigHasMetachar(config)) =>
        (run.exit = 1 /\ run.phase = "validate" /\ run.ops = <<>>)

(***************************************************************************)
(* Plugin names                                                            *)
(***************************************************************************)
IsLetter(c) == c \in {"a", "Z"}
IsDigit(c)  == c = "7"

\* Non-empty, at most 100 code units, only letters, digits, hyphen,
\* underscore and dot, and the first character is none of `excluded`
NameShape(name, excluded) ==
    LET cs == Chars(name)
    IN /\ Len(cs) >= 1
       /\ Len(cs) <= 100
       /\ \A i \in DOMAIN cs : IsLetter(cs[i]) \/ IsDigit(cs[i]) \/ cs[i] \in {"-", "_", "."}
       /\ cs[1] \notin excluded

Corrupt(dir) == dir.kind # "absent" /\ ~ValidRepo(dir)

\* The operation logs a repair may leave: the removal, then the clone, then
\* the checkout, each invoked only if the one before it succeeded
RepairLogs(n) ==
    {<<Op("rm", n, FALSE)>>,
     <<Op("rm", n, TRUE), Op("clone", n, FALSE)>>,
     <<Op("rm", n, TRUE), Op("clone", n, TRUE), Op("checkout", n, FALSE)>>,
     <<Op("rm", n, TRUE), Op("clone", n, TRUE), Op("checkout", n, TRUE)>>}

\* C29: a plugin whose existing directory fails corruption detection is
\* repaired by removing the directory, then cloning, then checking out the
\* target, in that order: no clone before the removal succeeded, no checkout
\* before the clone succeeded.
C29_RepairRemovesClonesChecksOut ==
    [][Reconciled(run') =>
          \A i \in DOMAIN config.plugins :
              Corrupt(DirOf(disk, i)) =>
                  /\ OpsOf(run', config.plugins[i].name) \in RepairLogs(config.plugins[i].name)
                  /\ ((run'.verdicts[i].status = "success") =>
                        DirOf(disk', i) = Repo(config.plugins[i].commit.id, 40))]_vars

\* C29 witness: a directory that was no repository was removed, cloned and
\* checked out at the target by an install run
C29_Witness ==
    /\ Reconciled(run)
    /\ \E i \in DOMAIN config.plugins :
          /\ OpsOf(run, config.plugins[i].name) =
                <<Op("rm", config.plugins[i].name, TRUE),
                  Op("clone", config.plugins[i].name, TRUE),
                  Op("checkout", config.plugins[i].name, TRUE)>>
          /\ DirOf(disk, i) = Repo(Target, 40)

(***************************************************************************)
(* Isolation                                                               *)
(***************************************************************************)
\* C30: reconciling one plugin changes neither the directory nor the
\* lock-file entry of another declared plugin.  In an install run, a
\* plugin on which no operation is invoked, and a plugin that was at its
\* target revision, has the same directory state afterwards, and the entries
\* under its name are entries that were there or carry its own declaration.
C30_ReconciliationIsIsolated ==
    [][Reconciled(run') =>
          \A i \in DOMAIN config.plugins :
              LET plugin == config.plugins[i]
              IN /\ (OpsOf(run', plugin.name) = <<>>) => (DirOf(disk', i) = DirOf(disk, i))
                 /\ (DirOf(disk, i) = Repo(plugin.commit.id, 40)) =>
                        (DirOf(disk', i) = DirOf(disk, i))
                 /\ \A k \in DOMAIN lockFile' :
                        (lockFile'[k].name = plugin.name) =>
                            \/ \E j \in DOMAIN lockFile : lockFile[j] = lockFile'[k]
                            \/ /\ lockFile'[k].repo = plugin.repo
                               /\ lockFile'[k].commit = plugin.commit]_vars

\* C30 witness: the first plugin was at its target and is unchanged after an
\* install run that removed and re-cloned the second plugin's directory
C30_Witness ==
    /\ Reconciled(run)
    /\ Len(config.plugins) = 2
    /\ run.verdicts[1].status = "skipped"
    /\ DirOf(disk, 1) = Repo(Target, 40)
    /\ \E k \in DOMAIN run.ops : run.ops[k] = Op("rm", config.plugins[2].name, TRUE)
    /\ \E k \in DOMAIN run.ops : run.ops[k] = Op("clone", config.plugins[2].name, TRUE)

(***************************************************************************)
(* Independence of the previous lock file                                  *)
(***************************************************************************)
\* The lock files an earlier run may have left for the names of the
\* configuration and the OrphanName
OtherLockFiles ==
    {OldEntries(CfgNames \o <<OrphanName>>, S) :
        S \in SUBSET (PluginNames(config.plugins) \cup {OrphanName})}

\* What the environment may do to an install run from the current state
\* under some lock file: what it may do under the one that records every name
AnyEnvs(autoClean) ==
    Envs(config, disk,
         OldEntries(CfgNames \o <<OrphanName>>, Range(CfgNames) \cup {OrphanName}),
         autoClean)

\* The directory states of the declared plugins on the filesystem d
DeclaredDirs(d) ==
    [i \in DOMAIN config.plugins |->
        d[resolvePluginPath(config.plugins[i].name, config.installDir)]]

\* C31 (as stated): two install runs that start from the current disk
\* state and configuration (of a machine on which install is about to run)
\* and meet the same environment, but start from different lock files,
\* give the same verdicts and the same final disk.
C31_SameOutcomeWhateverLockFile ==
    clock = 1 =>
    \A autoClean \in BOOLEAN : \A env \in AnyEnvs(autoClean) : \A other \in OtherLockFiles :
        LET r1 == install(config, autoClean, env, disk, lockFile, clock)
            r2 == install(config, autoClean, env, disk, other, clock)
        IN r1.rec.verdicts = r2.rec.verdicts /\ r1.disk = r2.disk

\* C31 (amended): they give the same verdicts and the same final state of
\* every declared plugin's directory, and without --auto-clean the same
\* final disk.
C31_SameVerdictsWhateverLockFile ==
    clock = 1 =>
    \A autoClean \in BOOLEAN : \A env \in AnyEnvs(autoClean) : \A other \in OtherLockFiles :
        LET r1 == install(config, autoClean, env, disk, lockFile, clock)
            r2 == install(config, autoClean, env, disk, other, clock)
        IN /\ r1.rec.verdicts = r2.rec.verdicts
           /\ DeclaredDirs(r1.disk) = DeclaredDirs(r2.disk)
           /\ (~autoClean => r1.disk = r2.disk)

\* C31 witness: a state from which an install changes the disk and, started
\* from the stored lock file and from an empty one, leaves different lock
\* files
C31_Witness ==
    /\ clock = 1
    /\ Len(lockFile) >= 2
    /\ LET r1 == install(config, FALSE, NoFailure(config), disk, lockFile, clock)
           r2 == install(config, FALSE, NoFailure(config), disk, <<>>, clock)
       IN /\ r1.disk # disk
          /\ r1.rec.verdicts[1].status = "success"
          /\ r1.lockFile # r2.lockFile

(***************************************************************************)
(* Exit code 1                                                             *)
(***************************************************************************)
\* C32: whenever install returns exit code 1, the run performed no clone,
\* no checkout and no directory removal, also when the error arose while
\* the lock file was read or written.
C32_ExitOneMeansNothingDone ==
    [][(run'.cmd = "install" /\ run'.exit = 1) => (run'.ops = <<>> /\ disk' = disk)]_vars

(***************************************************************************)
(* The circular-dependency error                                           *)
(***************************************************************************)
\* C33: resolveDependencies raises the circular-dependency error only when
\* the dependency graph contains a cycle, for every plugin list, lists in
\* which two plugins share a name included.
C33_CircularErrorOnlyOnCycle ==
    (Called /\ resolved.kind = "circular") => HasCycle(config.plugins)

(***************************************************************************)
(* The entry of a skipped plugin                                           *)
(***************************************************************************)
\* C34: install changes an existing lock-file entry only when the plugin's
\* revision changes: a plugin whose verdict is skipped and that had an entry
\* recording the declared revision has the same entry, install timestamp
\* included, after the run.
C34_SkippedKeepsEntry ==
    [][Reconciled(run') =>
          \A i \in DOMAIN config.plugins :
              (/\ run'.verdicts[i].status = "skipped"
               /\ \E k \in DOMAIN lockFile :
                     /\ lockFile[k].name = config.plugins[i].name
                     /\ lockFile[k].commit = config.plugins[i].commit) =>
                  EntriesOf(lockFile', config.plugins[i].name) =
                      EntriesOf(lockFile, config.plugins[i].name)]_vars

(***************************************************************************)
(* Error kinds                                                             *)
(***************************************************************************)
\* The error class a failed clone or checkout is reported with
VcsErrorKind == "GitError"

\* C35: a failure to remove a corrupt directory during repair is reported
\* with an error kind other than that of a VCS failure.
C35_RemovalFailureIsNotVcsError ==
    Reconciled(run) =>
        \A i \in DOMAIN config.plugins :
            (OpsOf(run, config.plugins[i].name) = <<Op("rm", config.plugins[i].name, FALSE)>>) =>
                (run.verdicts[i].status = "failed" /\ run.verdicts[i].error # VcsErrorKind)
====
